---- MODULE Spec2Model ----
(***************************************************************************)
(* Slot lifecycle and ping-quota engine of the slot watcher bot.           *)
(*                                                                         *)
(* The store (MemStorage), the tier table (shopTypes) and the four bot     *)
(* handlers (slotadd, slotremove, the @everyone monitor and the expiration *)
(* checker) are modelled.  A handler is an async function: the code        *)
(* between two awaits runs without interruption, and at every await any    *)
(* other handler may run.  Each action below is one such segment.          *)
(*                                                                         *)
(* Time is counted in hours (the source counts milliseconds; every         *)
(* duration of the tier table is a whole number of hours).                 *)
(***************************************************************************)
EXTENDS Integers, Sequences, FiniteSets, Bags, TLC

VARIABLES
    users,        \* MemStorage.users: the discordId of each user record, in insertion order
    slots,        \* MemStorage.slots: slot records in insertion order (id = position)
    pingUsage,    \* MemStorage.pingUsage: ping records in insertion order
    now,          \* the wall clock (Date.now()), in hours
    role,         \* external: members that hold the shared slot role
    perm,         \* external: <<channel, member>> permission overwrites
    chanName,     \* external: the name of each channel
    discord,      \* external: whether the Discord API answers ("up") or its calls throw ("down")
    inflight,     \* handlers suspended at an await: a bag of handler frames
    revokeCalls,  \* history: calls of revokeSlotPermissions per slot id (2 = two or more)
    client,       \* the discord.js client: "new", "login", "ready" or "destroyed"
    checkExpirationInterval
                  \* DiscordBot.checkExpirationInterval: "null", "ticking" or "cleared"

\* the fields of the DiscordBot object, which no handler assigns
bot == <<client, checkExpirationInterval>>

vars == <<users, slots, pingUsage, now, role, perm, chanName, discord, inflight, revokeCalls,
          client, checkExpirationInterval>>

-----------------------------------------------------------------------------
(* Bounds of the model *)

MaxSlots == 2       \* slot records ever created
MaxInflight == 2    \* handlers in flight at once
MaxPings == 3       \* ping records ever created

Holders == {"h1", "h2"}
Channels == {"c1"}

-----------------------------------------------------------------------------
(* Tier table *)

NULL == -1

ShopType == {"level1", "level2", "level3", "level4", "partnered"}

\* a table in which a partner has the quota of everyone else
shopTypesFlat ==
    [ level1    |-> [duration |-> 7 * 24,  pingCooldown |-> 72, pingsPerCooldown |-> 1],
      level2    |-> [duration |-> 14 * 24, pingCooldown |-> 48, pingsPerCooldown |-> 1],
      level3    |-> [duration |-> 30 * 24, pingCooldown |-> 24, pingsPerCooldown |-> 1],
      level4    |-> [duration |-> NULL,    pingCooldown |-> 24, pingsPerCooldown |-> 1],
      partnered |-> [duration |-> NULL,    pingCooldown |-> 24, pingsPerCooldown |-> 1] ]

shopTypes ==
    [ level1    |-> [duration |-> 7 * 24,  pingCooldown |-> 72, pingsPerCooldown |-> 1],
      level2    |-> [duration |-> 14 * 24, pingCooldown |-> 48, pingsPerCooldown |-> 1],
      level3    |-> [duration |-> 30 * 24, pingCooldown |-> 24, pingsPerCooldown |-> 1],
      level4    |-> [duration |-> NULL,    pingCooldown |-> 24, pingsPerCooldown |-> 1],
      partnered |-> [duration |-> NULL,    pingCooldown |-> 24, pingsPerCooldown |-> 2] ]

-----------------------------------------------------------------------------
(* Channel names *)

OriginalName(c) == <<"shop", c>>
SlotName(h) == <<"slot", h>>
NoName == <<"none", "none">>

-----------------------------------------------------------------------------
(* Store *)

NoSlot ==
    [id |-> 0, discordUserId |-> "none", shopType |-> "none", channelId |-> "none",
     originalChannelName |-> NoName, expiresAt |-> NULL, isActive |-> FALSE]

\* the keys of MemStorage.slots: a deleted record leaves NoSlot at its position
SlotIds == {i \in 1..Len(slots) : slots[i] # NoSlot}

\* Array.from(values).find(pred): the first match in insertion order, or undefined
FindSlot(S) == IF S = {} THEN NoSlot ELSE slots[CHOOSE i \in S : \A j \in S : i <= j]

\* a find that forgets the user filter
getSlotOfAnyUser(h) == FindSlot({i \in SlotIds : slots[i].isActive})

getSlotByDiscordUserId(h) ==
    FindSlot({i \in SlotIds : slots[i].discordUserId = h /\ slots[i].isActive})

getUserByDiscordId(h) == \E i \in 1..Len(users) : users[i] = h

getAllActiveSlots == {i \in SlotIds : slots[i].isActive}

\* a filter that forgets the active flag
getExpiredSlotsAnyState ==
    {i \in SlotIds : slots[i].expiresAt # NULL /\ slots[i].expiresAt < now}

\* a filter that finds a slot only at the very hour of its expiry
getExpiredSlotsOnTheDot ==
    {i \in SlotIds : slots[i].isActive /\ slots[i].expiresAt # NULL /\ slots[i].expiresAt = now}

getExpiredSlots ==
    {i \in SlotIds : slots[i].isActive /\ slots[i].expiresAt # NULL /\ slots[i].expiresAt < now}

\* a filter that leaves out the record used exactly at `since`
getPingUsageAfter(slotId, since) ==
    {k \in 1..Len(pingUsage) : pingUsage[k].slotId = slotId /\ pingUsage[k].usedAt > since}

\* a filter by the user of the slot instead of the slot
getPingUsageOfUser(slotId, since) ==
    {k \in 1..Len(pingUsage) :
        /\ slotId \in SlotIds /\ pingUsage[k].discordUserId = slots[slotId].discordUserId
        /\ pingUsage[k].usedAt >= since}

getPingUsage(slotId, since) ==
    {k \in 1..Len(pingUsage) : pingUsage[k].slotId = slotId /\ pingUsage[k].usedAt >= since}

createSlot(h, t, c, orig, exp) ==
    Append(slots, [id |-> Len(slots) + 1, discordUserId |-> h, shopType |-> t, channelId |-> c,
                   originalChannelName |-> orig, expiresAt |-> exp, isActive |-> TRUE])

\* an update that is lost
updateSlotLost(id) == slots

\* an update that stores the changes in place of the record instead of merging them
updateSlotReplaced(id) ==
    IF id \in SlotIds
    THEN [slots EXCEPT ![id] = [@ EXCEPT !.isActive = FALSE, !.expiresAt = NULL,
                                         !.originalChannelName = NoName]]
    ELSE slots

\* MemStorage.deleteSlot: this.slots.delete(id)
deleteSlot(id) == [slots EXCEPT ![id] = NoSlot]

updateSlotInactive(id) ==
    IF id \in SlotIds THEN [slots EXCEPT ![id].isActive = FALSE] ELSE slots

\* a store that keeps one ping record per slot, overwriting the earlier one
createPingUsageUpsert(slotId, h) ==
    IF \E k \in 1..Len(pingUsage) : pingUsage[k].slotId = slotId
    THEN [k \in 1..Len(pingUsage) |->
             IF pingUsage[k].slotId = slotId
             THEN [slotId |-> slotId, discordUserId |-> h, usedAt |-> now]
             ELSE pingUsage[k]]
    ELSE Append(pingUsage, [slotId |-> slotId, discordUserId |-> h, usedAt |-> now])

createPingUsage(slotId, h) ==
    Append(pingUsage, [slotId |-> slotId, discordUserId |-> h, usedAt |-> now])

-----------------------------------------------------------------------------
(* Handler frames: the local variables of a handler suspended at an await *)

\* the guild in which slots are granted, and the fallback of an unset GUILD_ID
HomeGuild == "g1"
NoGuild == ""

\* guild: the guild id a handler passes to revokeSlotPermissions
Frame(kind, pc, h, t, c, orig, slot, queue, recent) ==
    [kind |-> kind, pc |-> pc, h |-> h, t |-> t, c |-> c, orig |-> orig,
     slot |-> slot, queue |-> queue, recent |-> recent, guild |-> HomeGuild]

AddFrame(pc, h, t, c, orig) == Frame("add", pc, h, t, c, orig, NoSlot, <<>>, 0)
RevokeFrame(kind, pc, slot, queue) ==
    Frame(kind, pc, slot.discordUserId, "none", "none", NoName, slot, queue, 0)
PingFrame(pc, h, slot, recent) ==
    Frame("ping", pc, h, "none", "none", NoName, slot, <<>>, recent)

Frames == BagToSet(inflight)
Put(f) == inflight (+) SetToBag({f})
Drop(f) == inflight (-) SetToBag({f})
Swap(f, g) == Drop(f) (+) SetToBag({g})
CountKind(kind) ==
    BagCardinality([f \in {g \in Frames : g.kind = kind} |-> inflight[f]])
CanSpawn == BagCardinality(inflight) < MaxInflight

Bump(id) == [revokeCalls EXCEPT ![id] = IF @ < 2 THEN @ + 1 ELSE 2]

\* for (const slot of expiredSlots): the slot objects in insertion order
RECURSIVE InOrder(_)
InOrder(S) ==
    IF S = {} THEN <<>>
    ELSE LET m == CHOOSE i \in S : \A j \in S : i <= j
         IN  <<slots[m]>> \o InOrder(S \ {m})

\* the bot logged in and its ready handler has run: the interval is set
Init ==
    /\ users = <<>>
    /\ slots = <<>>
    /\ pingUsage = <<>>
    /\ now = 0
    /\ role = {}
    /\ perm = {}
    /\ chanName = [c \in Channels |-> OriginalName(c)]
    /\ discord = "up"
    /\ inflight = EmptyBag
    /\ revokeCalls = <<>>
    /\ client = "ready"
    /\ checkExpirationInterval = "ticking"

-----------------------------------------------------------------------------
(* /slotadd *)

\* a grant that does not look for an active slot of the user
SlotAddStartUnchecked(h, t, c) ==
    /\ CanSpawn
    /\ Len(slots) + CountKind("add") < MaxSlots
    /\ inflight' = Put(AddFrame("addLookup", h, t, c, NoName))
    /\ UNCHANGED <<users, slots, pingUsage, now, role, perm, chanName, discord, revokeCalls, bot>>

\* lines 140-146: the check for an active slot of the user
SlotAddStart(h, t, c) ==
    LET existingSlot == getSlotByDiscordUserId(h) IN
    \/ /\ existingSlot # NoSlot
       /\ UNCHANGED vars
    \/ /\ existingSlot = NoSlot
       /\ CanSpawn
       /\ Len(slots) + CountKind("add") < MaxSlots
       /\ inflight' = Put(AddFrame("addLookup", h, t, c, NoName))
       /\ UNCHANGED <<users, slots, pingUsage, now, role, perm, chanName, discord, revokeCalls, bot>>

\* line 149
SlotAddLookup(f) ==
    /\ f.kind = "add" /\ f.pc = "addLookup"
    /\ inflight' = Swap(f, [f EXCEPT !.pc = IF getUserByDiscordId(f.h) THEN "addRole" ELSE "addUser"])
    /\ UNCHANGED <<users, slots, pingUsage, now, role, perm, chanName, discord, revokeCalls, bot>>

\* lines 150-156
SlotAddUser(f) ==
    /\ f.kind = "add" /\ f.pc = "addUser"
    /\ users' = Append(users, f.h)
    /\ inflight' = Swap(f, [f EXCEPT !.pc = "addRole"])
    /\ UNCHANGED <<slots, pingUsage, now, role, perm, chanName, discord, revokeCalls, bot>>

\* lines 165-173; a throw ends the handler in its catch (lines 215-218)
SlotAddRole(f) ==
    /\ f.kind = "add" /\ f.pc = "addRole"
    /\ IF discord = "up"
       THEN /\ role' = role \cup {f.h}
            /\ inflight' = Swap(f, [f EXCEPT !.pc = "addPerm"])
       ELSE /\ inflight' = Drop(f)
            /\ UNCHANGED role
    /\ UNCHANGED <<users, slots, pingUsage, now, perm, chanName, discord, revokeCalls, bot>>

\* lines 177-180
SlotAddPerm(f) ==
    /\ f.kind = "add" /\ f.pc = "addPerm"
    /\ IF discord = "up"
       THEN /\ perm' = perm \cup {<<f.c, f.h>>}
            /\ inflight' = Swap(f, [f EXCEPT !.pc = "addName"])
       ELSE /\ inflight' = Drop(f)
            /\ UNCHANGED perm
    /\ UNCHANGED <<users, slots, pingUsage, now, role, chanName, discord, revokeCalls, bot>>

\* a grant that reads the channel's name after renaming it
SlotAddNameAfter(f) ==
    /\ f.kind = "add" /\ f.pc = "addName"
    /\ IF discord = "up"
       THEN /\ chanName' = [chanName EXCEPT ![f.c] = SlotName(f.h)]
            /\ inflight' = Swap(f, [f EXCEPT !.pc = "addSlot", !.orig = SlotName(f.h)])
       ELSE /\ inflight' = Drop(f)
            /\ UNCHANGED chanName
    /\ UNCHANGED <<users, slots, pingUsage, now, role, perm, discord, revokeCalls, bot>>

\* lines 183-185
SlotAddName(f) ==
    /\ f.kind = "add" /\ f.pc = "addName"
    /\ IF discord = "up"
       THEN /\ chanName' = [chanName EXCEPT ![f.c] = SlotName(f.h)]
            /\ inflight' = Swap(f, [f EXCEPT !.pc = "addSlot", !.orig = chanName[f.c]])
       ELSE /\ inflight' = Drop(f)
            /\ UNCHANGED chanName
    /\ UNCHANGED <<users, slots, pingUsage, now, role, perm, discord, revokeCalls, bot>>

\* an expiry that forgets to add the time of the grant
ExpiresAtDuration(t) == shopTypes[t].duration

\* lines 188-189
ExpiresAt(t) == IF shopTypes[t].duration # NULL THEN now + shopTypes[t].duration ELSE NULL

\* lines 188-202
SlotAddSlot(f) ==
    /\ f.kind = "add" /\ f.pc = "addSlot"
    /\ slots' = createSlot(f.h, f.t, f.c, f.orig, ExpiresAt(f.t))
    /\ revokeCalls' = Append(revokeCalls, 0)
    /\ inflight' = Drop(f)
    /\ UNCHANGED <<users, pingUsage, now, role, perm, chanName, discord, bot>>

-----------------------------------------------------------------------------
(* revokeSlotPermissions, followed by updateSlot(slot.id, {isActive: false}) *)

\* a caller enters revokeSlotPermissions with the slot object it read earlier
EnterRevoke(kind, slot, queue) == RevokeFrame(kind, "rvRole", slot, queue)

RevokePcs == {"rvRole", "rvPerm", "rvName", "deact"}

\* a revoke without the try blocks: the failure of a call ends the calling handler
RevokeRoleRaises(f) ==
    /\ f.pc = "rvRole"
    /\ IF discord = "up"
       THEN /\ role' = role \ {f.slot.discordUserId}
            /\ inflight' = Swap(f, [f EXCEPT !.pc = "rvPerm"])
       ELSE /\ UNCHANGED role
            /\ inflight' = Drop(f)
    /\ UNCHANGED <<users, slots, pingUsage, now, perm, chanName, discord, revokeCalls, bot>>

\* lines 335-349: the guild fetch, then the role removal in its own try
RevokeRole(f) ==
    /\ f.pc = "rvRole"
    /\ \/ /\ discord = "up" /\ f.guild = HomeGuild            \* the role is removed
          /\ role' = role \ {f.slot.discordUserId}
          /\ inflight' = Swap(f, [f EXCEPT !.pc = "rvPerm"])
       \/ /\ discord = "down" /\ f.guild = HomeGuild          \* the inner try catches
          /\ UNCHANGED role
          /\ inflight' = Swap(f, [f EXCEPT !.pc = "rvPerm"])
       \/ /\ discord = "down" \/ f.guild # HomeGuild          \* no guild to work on
          /\ UNCHANGED role
          /\ inflight' = Swap(f, [f EXCEPT !.pc = "deact"])
    /\ UNCHANGED <<users, slots, pingUsage, now, perm, chanName, discord, revokeCalls, bot>>

\* a revoke whose failure reaches the caller, which ends in its own catch
RevokePermRaises(f) ==
    /\ f.pc = "rvPerm"
    /\ IF discord = "up"
       THEN /\ perm' = perm \ {<<f.slot.channelId, f.slot.discordUserId>>}
            /\ inflight' = Swap(f, [f EXCEPT !.pc = "rvName"])
       ELSE /\ UNCHANGED perm
            /\ inflight' = Drop(f)
    /\ UNCHANGED <<users, slots, pingUsage, now, role, chanName, discord, revokeCalls, bot>>

\* lines 352-356
RevokePerm(f) ==
    /\ f.pc = "rvPerm"
    /\ IF discord = "up"
       THEN /\ perm' = perm \ {<<f.slot.channelId, f.slot.discordUserId>>}
            /\ inflight' = Swap(f, [f EXCEPT !.pc = "rvName"])
       ELSE /\ UNCHANGED perm
            /\ inflight' = Swap(f, [f EXCEPT !.pc = "deact"])
    /\ UNCHANGED <<users, slots, pingUsage, now, role, chanName, discord, revokeCalls, bot>>

\* lines 357-362
RevokeName(f) ==
    /\ f.pc = "rvName"
    /\ IF discord = "up"
       THEN chanName' = [chanName EXCEPT ![f.slot.channelId] = f.slot.originalChannelName]
       ELSE UNCHANGED chanName
    /\ inflight' = Swap(f, [f EXCEPT !.pc = "deact"])
    /\ UNCHANGED <<users, slots, pingUsage, now, role, perm, discord, revokeCalls, bot>>

\* lines 239, 303, 377: the update after the revoke, then the caller's continuation
Deactivate(f) ==
    /\ f.pc = "deact"
    /\ slots' = updateSlotInactive(f.slot.id)
    /\ IF f.kind = "sweep" /\ f.queue # <<>>
       THEN /\ inflight' = Swap(f, [EnterRevoke("sweep", Head(f.queue), Tail(f.queue))
                                       EXCEPT !.guild = f.guild])
            /\ revokeCalls' = Bump(Head(f.queue).id)
       ELSE /\ inflight' = Drop(f)
            /\ UNCHANGED revokeCalls
    /\ UNCHANGED <<users, pingUsage, now, role, perm, chanName, discord, bot>>

-----------------------------------------------------------------------------
(* /slotremove *)

\* lines 231-238
SlotRemoveStart(h) ==
    LET slot == getSlotByDiscordUserId(h) IN
    \/ /\ slot = NoSlot
       /\ UNCHANGED vars
    \/ /\ slot # NoSlot
       /\ CanSpawn
       /\ inflight' = Put(EnterRevoke("remove", slot, <<>>))
       /\ revokeCalls' = Bump(slot.id)
       /\ UNCHANGED <<users, slots, pingUsage, now, role, perm, chanName, discord, bot>>

-----------------------------------------------------------------------------
(* the @everyone / @here monitor *)

\* line 291
NoActiveSlot(slot) == slot = NoSlot \/ ~slot.isActive

\* a comparison that lets one more ping through
OverLimitStrict(recent, t) == recent > shopTypes[t].pingsPerCooldown

\* line 298
OverLimit(recent, t) == recent >= shopTypes[t].pingsPerCooldown

\* lines 290-291
PingStart(h) ==
    LET slot == getSlotByDiscordUserId(h) IN
    \/ /\ NoActiveSlot(slot)
       /\ UNCHANGED vars
    \/ /\ ~NoActiveSlot(slot)
       /\ CanSpawn
       /\ Len(pingUsage) + CountKind("ping") < MaxPings
       /\ inflight' = Put(PingFrame("pingCount", h, slot, 0))
       /\ UNCHANGED <<users, slots, pingUsage, now, role, perm, chanName, discord, revokeCalls, bot>>

\* lines 293-296
RecentPings(slot) ==
    Cardinality(getPingUsage(slot.id, now - shopTypes[slot.shopType].pingCooldown))

\* a slot whose shopType is no key of shopTypes: shopConfig is undefined, reading
\* shopConfig.pingCooldown (line 295) throws and the handler ends in its catch
PingCount(f) ==
    /\ f.kind = "ping" /\ f.pc = "pingCount"
    /\ inflight' = IF f.slot.shopType \in ShopType
                   THEN Swap(f, [f EXCEPT !.pc = "pingDecide", !.recent = RecentPings(f.slot)])
                   ELSE Drop(f)
    /\ UNCHANGED <<users, slots, pingUsage, now, role, perm, chanName, discord, revokeCalls, bot>>

\* a handler that records the ping before it looks at the limit
PingDecideRecordFirst(f) ==
    /\ f.kind = "ping" /\ f.pc = "pingDecide"
    /\ pingUsage' = createPingUsage(f.slot.id, f.h)
    /\ IF OverLimit(f.recent, f.slot.shopType)
       THEN /\ inflight' = Swap(f, EnterRevoke("ping", f.slot, <<>>))
            /\ revokeCalls' = Bump(f.slot.id)
       ELSE /\ inflight' = Drop(f)
            /\ UNCHANGED revokeCalls
    /\ UNCHANGED <<users, slots, now, role, perm, chanName, discord, bot>>

\* lines 298-326
PingDecide(f) ==
    /\ f.kind = "ping" /\ f.pc = "pingDecide"
    /\ \/ /\ OverLimit(f.recent, f.slot.shopType)
          /\ discord = "up"                                   \* message.delete() succeeds
          /\ inflight' = Swap(f, EnterRevoke("ping", f.slot, <<>>))
          /\ revokeCalls' = Bump(f.slot.id)
          /\ UNCHANGED pingUsage
       \/ /\ OverLimit(f.recent, f.slot.shopType)
          /\ discord = "down"                                 \* message.delete() throws
          /\ inflight' = Drop(f)
          /\ UNCHANGED <<pingUsage, revokeCalls>>
       \/ /\ ~OverLimit(f.recent, f.slot.shopType)
          /\ pingUsage' = createPingUsage(f.slot.id, f.h)
          /\ inflight' = Drop(f)
          /\ UNCHANGED revokeCalls
    /\ UNCHANGED <<users, slots, now, role, perm, chanName, discord, bot>>

-----------------------------------------------------------------------------
(* the expiration checker: one tick of the 5 minute interval *)

\* lines 371-376, with guildId the value of process.env.GUILD_ID || ''
Sweep(guildId) ==
    LET expiredSlots == InOrder(getExpiredSlots) IN
    \/ /\ checkExpirationInterval = "ticking"
       /\ expiredSlots = <<>>
       /\ UNCHANGED vars
    \/ /\ checkExpirationInterval = "ticking"
       /\ expiredSlots # <<>>
       /\ CanSpawn
       /\ inflight' = Put([EnterRevoke("sweep", Head(expiredSlots), Tail(expiredSlots))
                              EXCEPT !.guild = guildId])
       /\ revokeCalls' = Bump(Head(expiredSlots).id)
       /\ UNCHANGED <<users, slots, pingUsage, now, role, perm, chanName, discord, bot>>

\* a deployment whose GUILD_ID names the guild of the slots
SweepStart == Sweep(HomeGuild)

-----------------------------------------------------------------------------
(* the life of the bot: start(), the ready event, stop() *)

\* the state after `new DiscordBot()`: handlers registered, no login, no interval
Boot ==
    /\ users = <<>>
    /\ slots = <<>>
    /\ pingUsage = <<>>
    /\ now = 0
    /\ role = {}
    /\ perm = {}
    /\ chanName = [c \in Channels |-> OriginalName(c)]
    /\ discord = "up"
    /\ inflight = EmptyBag
    /\ revokeCalls = <<>>
    /\ client = "new"
    /\ checkExpirationInterval = "null"

\* lines 386-393: start() logs the client in
Start ==
    /\ client \in {"new", "destroyed"}
    /\ client' = "login"
    /\ UNCHANGED <<users, slots, pingUsage, now, role, perm, chanName, discord, inflight,
                   revokeCalls, checkExpirationInterval>>

\* a ready listener registered with `on`: it sets a new interval at every ready event
ReadyEveryTime ==
    /\ client = "login"
    /\ client' = "ready"
    /\ checkExpirationInterval' = "ticking"
    /\ UNCHANGED <<users, slots, pingUsage, now, role, perm, chanName, discord, inflight,
                   revokeCalls>>

\* lines 22-26: the ready event; the listener is registered with `once`, so it runs at
\* the first ready event only, which is the one that finds the interval null
Ready ==
    /\ client = "login"
    /\ client' = "ready"
    /\ checkExpirationInterval' =
           IF checkExpirationInterval = "null" THEN "ticking" ELSE checkExpirationInterval
    /\ UNCHANGED <<users, slots, pingUsage, now, role, perm, chanName, discord, inflight,
                   revokeCalls>>

\* lines 395-400: stop() clears the interval if there is one and destroys the client
Stop ==
    /\ client # "destroyed"
    /\ client' = "destroyed"
    /\ checkExpirationInterval' =
           IF checkExpirationInterval # "null" THEN "cleared" ELSE "null"
    /\ UNCHANGED <<users, slots, pingUsage, now, role, perm, chanName, discord, inflight,
                   revokeCalls>>

-----------------------------------------------------------------------------
(* the HTTP routes on the store *)

\* MemStorage.updateSlot: { ...slot, ...updates }
updateSlot(id, updates) ==
    [slots EXCEPT ![id] = [k \in DOMAIN @ |-> IF k \in DOMAIN updates THEN updates[k] ELSE @[k]]]

\* POST /api/slots: insertSlotSchema checks the types of the fields only (shopType is
\* any text, expiresAt may be null or absent, isActive any boolean), then createSlot
PostSlot(h, t, c, active) ==
    /\ Len(slots) + CountKind("add") < MaxSlots
    /\ slots' = Append(slots, [id |-> Len(slots) + 1, discordUserId |-> h, shopType |-> t,
                               channelId |-> c, originalChannelName |-> OriginalName(c),
                               expiresAt |-> NULL, isActive |-> active])
    /\ revokeCalls' = Append(revokeCalls, 0)
    /\ UNCHANGED <<users, pingUsage, now, role, perm, chanName, discord, inflight, bot>>

\* PATCH /api/slots/:id: the body is passed to updateSlot as it is; 404 for an unknown id
PatchSlot(id, updates) ==
    \/ /\ id \notin SlotIds
       /\ UNCHANGED vars
    \/ /\ id \in SlotIds
       /\ slots' = updateSlot(id, updates)
       /\ UNCHANGED <<users, pingUsage, now, role, perm, chanName, discord, inflight, revokeCalls, bot>>

\* a table of the dashboard that has drifted from the catalog: a month of 31 days
getShopTypeDurationDrifted(t) ==
    [level1 |-> 7 * 24, level2 |-> 14 * 24, level3 |-> 31 * 24,
     level4 |-> NULL, partnered |-> NULL][t]

\* the dashboard's own table of durations (part_000)
getShopTypeDuration(t) ==
    [level1 |-> 7 * 24, level2 |-> 14 * 24, level3 |-> 30 * 24,
     level4 |-> NULL, partnered |-> NULL][t]

\* the expiresAt the dashboard puts in the body of its POST
DashboardExpiresAt(t) ==
    IF t = "level4" \/ t = "partnered" THEN NULL ELSE now + getShopTypeDuration(t)

\* the dashboard's create form: POST /api/slots with the computed expiresAt and
\* isActive true. The date travels as JSON text; whether insertSlotSchema takes it is
\* decided by drizzle-zod, outside this code: the request is stored or answered 400
CreateSlotMutation(h, t, c) ==
    \/ /\ Len(slots) + CountKind("add") < MaxSlots
       /\ slots' = createSlot(h, t, c, OriginalName(c), DashboardExpiresAt(t))
       /\ revokeCalls' = Append(revokeCalls, 0)
       /\ UNCHANGED <<users, pingUsage, now, role, perm, chanName, discord, inflight, bot>>
    \/ /\ DashboardExpiresAt(t) # NULL
       /\ UNCHANGED vars

\* DELETE /api/slots/:id: deleteSlot and nothing else; 404 for an unknown id
DeleteSlot(id) ==
    \/ /\ id \notin SlotIds
       /\ UNCHANGED vars
    \/ /\ id \in SlotIds
       /\ slots' = deleteSlot(id)
       /\ UNCHANGED <<users, pingUsage, now, role, perm, chanName, discord, inflight,
                      revokeCalls, bot>>

-----------------------------------------------------------------------------
(* the read-only operations *)

\* a count that takes every slot record for an active slot
getSlotStatsOfAll ==
    [ totalSlots   |-> Cardinality(SlotIds),
      activeSlots  |-> Cardinality(SlotIds),
      expiringSoon |-> Cardinality({i \in SlotIds :
                           slots[i].expiresAt # NULL /\ slots[i].expiresAt <= now + 24}),
      todayPings   |-> Cardinality({k \in 1..Len(pingUsage) :
                           pingUsage[k].usedAt >= now - (now % 24)}) ]

\* MemStorage.getSlotStats; `today` is the last midnight, hour 0 being a midnight
getSlotStats ==
    [ totalSlots   |-> Cardinality(SlotIds),
      activeSlots  |-> Cardinality(getAllActiveSlots),
      expiringSoon |-> Cardinality({i \in getAllActiveSlots :
                           slots[i].expiresAt # NULL /\ slots[i].expiresAt <= now + 24}),
      todayPings   |-> Cardinality({k \in 1..Len(pingUsage) :
                           pingUsage[k].usedAt >= now - (now % 24)}) ]

\* GET /api/stats: answers getSlotStats
GetStats ==
    /\ getSlotStats.totalSlots >= 0
    /\ UNCHANGED vars

\* /slotinfo: reads the slot and its recent pings and replies; a failure is caught
\* and answered as well
SlotInfo(h) ==
    LET slot == getSlotByDiscordUserId(h) IN
    /\ slot # NoSlot /\ slot.shopType \in ShopType => RecentPings(slot) >= 0
    /\ UNCHANGED vars

-----------------------------------------------------------------------------
(* the environment: the clock, and the availability of the Discord API *)

Advance(t) ==
    /\ t > now
    /\ now' = t
    /\ UNCHANGED <<users, slots, pingUsage, role, perm, chanName, discord, inflight, revokeCalls, bot>>

Outage ==
    /\ discord = "up"
    /\ discord' = "down"
    /\ UNCHANGED <<users, slots, pingUsage, now, role, perm, chanName, inflight, revokeCalls, bot>>

Recover ==
    /\ discord = "down"
    /\ discord' = "up"
    /\ UNCHANGED <<users, slots, pingUsage, now, role, perm, chanName, inflight, revokeCalls, bot>>

-----------------------------------------------------------------------------
(* Specifications *)

\* a segment of a handler in flight
Step ==
    \/ \E f \in Frames : SlotAddLookup(f)
    \/ \E f \in Frames : SlotAddUser(f)
    \/ \E f \in Frames : SlotAddRole(f)
    \/ \E f \in Frames : SlotAddPerm(f)
    \/ \E f \in Frames : SlotAddName(f)
    \/ \E f \in Frames : SlotAddSlot(f)
    \/ \E f \in Frames : RevokeRole(f)
    \/ \E f \in Frames : RevokePerm(f)
    \/ \E f \in Frames : RevokeName(f)
    \/ \E f \in Frames : Deactivate(f)
    \/ \E f \in Frames : PingCount(f)
    \/ \E f \in Frames : PingDecide(f)

Idle == inflight = EmptyBag

\* Spec: handlers interleave at every await; Discord answers every call
Holder1 == {"h1"}
RaceTiers == {"level1", "partnered"}
RaceClock == {169}

Next ==
    \/ \E h \in Holder1, t \in RaceTiers, c \in Channels : SlotAddStart(h, t, c)
    \/ \E h \in Holder1 : SlotRemoveStart(h)
    \/ \E h \in Holder1 : PingStart(h)
    \/ SweepStart
    \/ Step
    \/ \E t \in RaceClock : Advance(t)

Spec == Init /\ [][Next]_vars

\* SpecSeq: handlers run one after the other (none starts while another is in flight)
SeqTiers == {"level1", "level3", "partnered"}
SeqClock == {1, 24, 25, 168, 169}

NextSeq ==
    \/ \E h \in Holder1, t \in SeqTiers, c \in Channels : Idle /\ SlotAddStart(h, t, c)
    \/ \E h \in Holder1 : Idle /\ SlotRemoveStart(h)
    \/ \E h \in Holder1 : Idle /\ PingStart(h)
    \/ Idle /\ SweepStart
    \/ Step
    \/ \E t \in SeqClock : Advance(t)

SpecSeq == Init /\ [][NextSeq]_vars

\* SpecPair: as SpecSeq, with two holders
PairTiers == {"level1", "level4"}
PairClock == {168, 169}

NextPair ==
    \/ \E h \in Holders, t \in PairTiers, c \in Channels : Idle /\ SlotAddStart(h, t, c)
    \/ \E h \in Holders : Idle /\ SlotRemoveStart(h)
    \/ \E h \in Holders : Idle /\ PingStart(h)
    \/ Idle /\ SweepStart
    \/ Step
    \/ \E t \in PairClock : Advance(t)

SpecPair == Init /\ [][NextPair]_vars

\* SpecFault: as SpecSeq, and the Discord API may be down at any call
FaultTiers == {"level1", "partnered"}
FaultClock == {72, 169}

NextFault ==
    \/ \E h \in Holder1, t \in FaultTiers, c \in Channels : Idle /\ SlotAddStart(h, t, c)
    \/ \E h \in Holder1 : Idle /\ SlotRemoveStart(h)
    \/ \E h \in Holder1 : Idle /\ PingStart(h)
    \/ Idle /\ SweepStart
    \/ Step
    \/ \E t \in FaultClock : Advance(t)
    \/ Outage
    \/ Recover

SpecFault == Init /\ [][NextFault]_vars

\* SpecFaultFair: as SpecFault, and a handler in flight is resumed: every await of the
\* handlers is on a promise that settles (a Discord call answers or rejects)
SpecFaultFair == Init /\ [][NextFault]_vars /\ WF_vars(Step)

\* SpecExpiryFair: as SpecFaultFair with slots that expire, and the interval keeps
\* ticking (a tick finds the bot idle again and again) and the clock advances
ExpiryTiers == {"level1"}
ExpiryClock == {169}

NextExpiry ==
    \/ \E h \in Holder1, t \in ExpiryTiers, c \in Channels : Idle /\ SlotAddStart(h, t, c)
    \/ \E h \in Holder1 : Idle /\ SlotRemoveStart(h)
    \/ \E h \in Holder1 : Idle /\ PingStart(h)
    \/ Idle /\ SweepStart
    \/ Step
    \/ \E t \in ExpiryClock : Advance(t)
    \/ Outage
    \/ Recover

SpecExpiryFair ==
    /\ Init /\ [][NextExpiry]_vars
    /\ WF_vars(Step)
    /\ SF_vars(Idle /\ SweepStart)
    /\ WF_vars(\E t \in ExpiryClock : Advance(t))

\* SpecSweep: as SpecFault, with two holders whose slots expire together
SweepTiers == {"level1"}
SweepClock == {169}

NextSweep ==
    \/ \E h \in Holders, t \in SweepTiers, c \in Channels : Idle /\ SlotAddStart(h, t, c)
    \/ \E h \in Holders : Idle /\ SlotRemoveStart(h)
    \/ \E h \in Holders : Idle /\ PingStart(h)
    \/ Idle /\ SweepStart
    \/ Step
    \/ \E t \in SweepClock : Advance(t)
    \/ Outage
    \/ Recover

SpecSweep == Init /\ [][NextSweep]_vars

\* SpecTimer: as SpecSeq, from the construction of the bot, which is started, becomes
\* ready and is stopped; commands and messages arrive while the client is ready
TimerTiers == {"level1"}
TimerClock == {169}

NextTimer ==
    \/ Start
    \/ Ready
    \/ Stop
    \/ \E h \in Holder1, t \in TimerTiers, c \in Channels :
           client = "ready" /\ Idle /\ SlotAddStart(h, t, c)
    \/ \E h \in Holder1 : client = "ready" /\ Idle /\ SlotRemoveStart(h)
    \/ \E h \in Holder1 : client = "ready" /\ Idle /\ PingStart(h)
    \/ Idle /\ SweepStart
    \/ Step
    \/ \E t \in TimerClock : Advance(t)

SpecTimer == Boot /\ [][NextTimer]_vars

\* SpecAdmin: as SpecSeq, with the dashboard's delete of a slot
AdminTiers == {"level1", "level4"}
AdminClock == {169}

NextAdmin ==
    \/ \E h \in Holder1, t \in AdminTiers, c \in Channels : Idle /\ SlotAddStart(h, t, c)
    \/ \E h \in Holder1 : Idle /\ SlotRemoveStart(h)
    \/ \E h \in Holder1 : Idle /\ PingStart(h)
    \/ Idle /\ SweepStart
    \/ \E id \in 1..MaxSlots : Idle /\ DeleteSlot(id)
    \/ Step
    \/ \E t \in AdminClock : Advance(t)

SpecAdmin == Init /\ [][NextAdmin]_vars

\* SpecDash: as SpecSeq, with slots created from the dashboard's form as well
DashTiers == {"level1", "level3", "partnered"}
DashClock == {24, 169}

NextDash ==
    \/ \E h \in Holder1, t \in DashTiers, c \in Channels : Idle /\ SlotAddStart(h, t, c)
    \/ \E h \in Holder1 : Idle /\ SlotRemoveStart(h)
    \/ \E h \in Holder1 : Idle /\ PingStart(h)
    \/ Idle /\ SweepStart
    \/ \E h \in Holders, t \in DashTiers, c \in Channels : Idle /\ CreateSlotMutation(h, t, c)
    \/ Step
    \/ \E t \in DashClock : Advance(t)

SpecDash == Init /\ [][NextDash]_vars

\* SpecRead: as SpecSeq, with the read-only operations
ReadTiers == {"level1", "partnered"}
ReadClock == {24, 169}

NextRead ==
    \/ \E h \in Holder1, t \in ReadTiers, c \in Channels : Idle /\ SlotAddStart(h, t, c)
    \/ \E h \in Holder1 : Idle /\ SlotRemoveStart(h)
    \/ \E h \in Holder1 : Idle /\ PingStart(h)
    \/ Idle /\ SweepStart
    \/ \E h \in Holder1 : SlotInfo(h)
    \/ GetStats
    \/ Step
    \/ \E t \in ReadClock : Advance(t)

SpecRead == Init /\ [][NextRead]_vars

\* SpecEnv: as SpecSeq, in a deployment that does not set GUILD_ID
EnvTiers == {"level1", "partnered"}
EnvClock == {169}

NextEnv ==
    \/ \E h \in Holder1, t \in EnvTiers, c \in Channels : Idle /\ SlotAddStart(h, t, c)
    \/ \E h \in Holder1 : Idle /\ SlotRemoveStart(h)
    \/ \E h \in Holder1 : Idle /\ PingStart(h)
    \/ Idle /\ Sweep(NoGuild)
    \/ Step
    \/ \E t \in EnvClock : Advance(t)

SpecEnv == Init /\ [][NextEnv]_vars

\* SpecApi: as SpecSeq, and the dashboard's HTTP routes write to the store
ApiTiers == {"level1", "level4", "gold"}
ApiClock == {169}
PatchBodies == {[isActive |-> TRUE], [isActive |-> FALSE], [expiresAt |-> NULL]}

NextApi ==
    \/ \E h \in Holder1, t \in ShopType \cap ApiTiers, c \in Channels : Idle /\ SlotAddStart(h, t, c)
    \/ \E h \in Holder1 : Idle /\ SlotRemoveStart(h)
    \/ \E h \in Holder1 : Idle /\ PingStart(h)
    \/ Idle /\ SweepStart
    \/ \E h \in Holder1, t \in ApiTiers, c \in Channels, active \in BOOLEAN :
           Idle /\ PostSlot(h, t, c, active)
    \/ \E id \in 1..MaxSlots, updates \in PatchBodies : Idle /\ PatchSlot(id, updates)
    \/ Step
    \/ \E t \in ApiClock : Advance(t)

SpecApi == Init /\ [][NextApi]_vars

-----------------------------------------------------------------------------
(* Vocabulary of the properties *)

FramesNext == BagToSet(inflight')

ActiveSlotsOf(h) == {i \in SlotIds : slots[i].discordUserId = h /\ slots[i].isActive}

EventsOf(id) == {k \in 1..Len(pingUsage) : pingUsage[k].slotId = id}

Quota(t) == shopTypes[t].pingsPerCooldown
Window(t) == shopTypes[t].pingCooldown

\* the handler that evaluated an attempt as over the limit: at its decision, or revoking
EvaluatedOver(f) ==
    /\ f.kind = "ping"
    /\ \/ f.pc = "pingDecide" /\ f.recent >= Quota(f.slot.shopType)
       \/ f.pc \in RevokePcs

-----------------------------------------------------------------------------
(* C1: each holder has at most one slot with active=true, in every reachable
   state and under every interleaving of the handlers. *)
C1_AtMostOneActive == \A h \in Holders : Cardinality(ActiveSlotsOf(h)) <= 1

(* C3: when two terminal triggers race for the same slot, the external revoke
   (revokeSlotPermissions) is issued once for that slot, not once per trigger. *)
C3_RevokedOncePerSlot == \A i \in SlotIds : revokeCalls[i] <= 1

(* C4: for every slot, the PingEvents whose used-at lies in a half-open interval
   of the tier's window length W never number more than the tier's quota Q.
   An interval that holds the most events starts at one of them. *)
C4_WindowQuota ==
    \A i \in SlotIds : \A k \in EventsOf(i) :
        Cardinality({j \in EventsOf(i) :
                        /\ pingUsage[k].usedAt <= pingUsage[j].usedAt
                        /\ pingUsage[j].usedAt < pingUsage[k].usedAt + Window(slots[i].shopType)})
            <= Quota(slots[i].shopType)

-----------------------------------------------------------------------------
(* The two outcomes of an evaluated attempt, as steps *)

\* the attempt is allowed: its ping record is appended and the handler ends
AllowedStep(f) ==
    /\ pingUsage' = Append(pingUsage, [slotId |-> f.slot.id, discordUserId |-> f.h, usedAt |-> now])
    /\ inflight' = Drop(f)
    /\ slots' = slots

\* the attempt is over the limit: nothing is recorded and the revocation of the slot begins
OverLimitStep(f) ==
    /\ pingUsage' = pingUsage
    /\ \E g \in FramesNext : g.kind = "ping" /\ g.pc = "rvRole" /\ g.slot = f.slot

\* the quota and window the slash command advertises for each tier (part_001, lines 70-74)
advertised ==
    [ level1    |-> [pings |-> 1, hours |-> 72],
      level2    |-> [pings |-> 1, hours |-> 48],
      level3    |-> [pings |-> 1, hours |-> 24],
      level4    |-> [pings |-> 1, hours |-> 24],
      partnered |-> [pings |-> 2, hours |-> 24] ]

-----------------------------------------------------------------------------
(* C2: revoke is idempotent.  With the triggers run one after the other, a slot
   sees at most one call of the external revoke, and exactly one once it is
   inactive: a later Expire or quota trigger on the inactive slot does nothing. *)
C2_RevokeIdempotent ==
    \A i \in SlotIds :
        /\ revokeCalls[i] <= 1
        /\ ~slots[i].isActive => revokeCalls[i] = 1

\* an expired slot, revoked once, with no handler in flight: the next tick finds nothing
C2_Witness ==
    \E i \in SlotIds :
        /\ ~slots[i].isActive /\ revokeCalls[i] = 1 /\ Idle
        /\ slots[i].expiresAt # NULL /\ slots[i].expiresAt < now

(* C5: an attempt evaluated at time now counts used = the slot's PingEvents with
   used-at >= now - W; it is over the limit iff used >= Q, and otherwise it is
   allowed and exactly one PingEvent of that slot is appended. *)
C5_QuotaDecision ==
    [][\A f \in Frames : (f.kind = "ping" /\ inflight' # inflight) =>
          LET t == f.slot.shopType
              used == Cardinality({k \in EventsOf(f.slot.id) :
                                      pingUsage[k].usedAt >= now - Window(t)})
          IN  /\ f.pc = "pingCount" =>
                     \E g \in FramesNext : g.pc = "pingDecide" /\ g.recent = used
              /\ f.pc = "pingDecide" =>
                     IF f.recent >= Quota(t) THEN OverLimitStep(f) ELSE AllowedStep(f)
      ]_vars

\* an attempt made exactly W after the slot's last ping has been evaluated as over the limit
C5_Witness ==
    \E f \in Frames :
        /\ f.kind = "ping" /\ f.pc = "pingDecide" /\ f.recent >= Quota(f.slot.shopType)
        /\ \E k \in EventsOf(f.slot.id) : pingUsage[k].usedAt + Window(f.slot.shopType) = now

(* C6: of the attempts made on a slot within one window, the first Q are
   allowed and the next one is over the limit (Q and W as advertised: level3
   1 per 24 h, partnered 2 per 24 h). *)
C6_FirstQAllowed ==
    [][\A f \in Frames : (f.kind = "ping" /\ f.pc = "pingDecide" /\ inflight' # inflight) =>
          LET E == EventsOf(f.slot.id)
              Q == advertised[f.slot.shopType].pings
              W == advertised[f.slot.shopType].hours
          IN  (\A k \in E : now < pingUsage[k].usedAt + W) =>
                  /\ Cardinality(E) <= Q
                  /\ Cardinality(E) < Q => AllowedStep(f)
                  /\ Cardinality(E) = Q => OverLimitStep(f)
      ]_vars

\* a partnered slot one hour after its grant: two pings recorded, the third attempt revoking
C6_Witness ==
    \E f \in Frames :
        /\ f.kind = "ping" /\ f.pc = "rvRole" /\ f.slot.shopType = "partnered"
        /\ now = 1
        /\ Cardinality(EventsOf(f.slot.id)) = 2

(* C7: a handler that evaluated an attempt as over the limit ends with the slot
   inactive, whether or not message.delete() succeeded (the removal of the role
   and of the channel permission comes before the deactivation, in the same
   handler); an allowed attempt deactivates no slot. *)
C7_OverLimitRevokes ==
    [][\A f \in Frames :
          /\ (EvaluatedOver(f) /\ inflight' = Drop(f)) => ~slots'[f.slot.id].isActive
          /\ (f.kind = "ping" /\ f.pc = "pingDecide" /\ inflight' # inflight
                /\ f.recent < Quota(f.slot.shopType)) => slots' = slots
      ]_vars

(* C8: an attempt evaluated as over the limit appends no PingEvent: from its
   decision to the end of its handler the ping records stay as they were. *)
C8_OverLimitRecordsNothing ==
    [][\A f \in Frames : EvaluatedOver(f) => pingUsage' = pingUsage]_vars

\* the handler of an over-the-limit attempt at its last step, earlier pings on record
C8_Witness ==
    \E f \in Frames : f.kind = "ping" /\ f.pc = "deact" /\ EventsOf(f.slot.id) # {}

(* C9: an attempt by a holder without an active slot is denied: while a holder
   has no active slot, no ping handler goes on for that holder, no PingEvent of
   that holder is appended and none of that holder's slots changes, whatever
   the ping history and whatever slots other holders have. *)
C9_NoActiveSlotDenied ==
    [][\A h \in Holders : ActiveSlotsOf(h) = {} =>
          /\ \A g \in FramesNext : ~(g.kind = "ping" /\ g.h = h)
          /\ {k \in 1..Len(pingUsage') : pingUsage'[k].discordUserId = h}
                = {k \in 1..Len(pingUsage) : pingUsage[k].discordUserId = h}
          /\ \A i \in SlotIds : slots[i].discordUserId = h => slots'[i] = slots[i]
      ]_vars

\* h2's slot is inactive and has pings on record, while h1 has an active slot
C9_Witness ==
    /\ Idle
    /\ ActiveSlotsOf("h2") = {} /\ ActiveSlotsOf("h1") # {}
    /\ \E i \in SlotIds : slots[i].discordUserId = "h2" /\ EventsOf(i) # {}

(* C10: getExpiredSlots(now) is exactly the set of slots with active=true,
   expires-at non-null and expires-at <= now. *)
C10_ExpiredSlots ==
    getExpiredSlots =
        {i \in SlotIds : slots[i].isActive /\ slots[i].expiresAt # NULL /\ slots[i].expiresAt <= now}

-----------------------------------------------------------------------------
(* C11: after a sweep that ran at time t has completed, every slot whose
   expires-at is non-null and <= t is inactive.  A tick that finds no expired
   slot completes on the spot, so the statement applies to every state where
   no handler is in flight and getExpiredSlots is empty. *)
C11_SweptSlotsInactive ==
    (Idle /\ getExpiredSlots = {}) =>
        \A i \in SlotIds :
            (slots[i].expiresAt # NULL /\ slots[i].expiresAt <= now) => ~slots[i].isActive

\* the durations of the catalog, in days: 1 week, 2 weeks, 1 month, lifetime, lifetime
catalogDays ==
    [level1 |-> 7, level2 |-> 14, level3 |-> 30, level4 |-> NULL, partnered |-> NULL]

(* C12: a grant sets expires-at = now + the tier's duration when it is finite
   and null otherwise; a level1 slot granted at T0 has expires-at = T0 + 7 d, it
   is among the expired slots of any sweep later than that, and the sweep ends
   with the slot inactive and the channel carrying the slot's original name. *)
C12_GrantExpiryAndSweep ==
    [][/\ \A f \in Frames : (f.kind = "add" /\ f.pc = "addSlot" /\ slots' # slots) =>
              /\ Len(slots') = Len(slots) + 1
              /\ slots'[Len(slots')].expiresAt =
                     IF catalogDays[f.t] = NULL THEN NULL ELSE now + catalogDays[f.t] * 24
              /\ f.t = "level1" => slots'[Len(slots')].expiresAt = now + 7 * 24
       /\ \A i \in SlotIds :
              (slots[i].isActive /\ slots[i].shopType = "level1" /\ slots[i].expiresAt + 1 <= now)
                  => i \in getExpiredSlots
       /\ \A f \in Frames : (f.kind = "sweep" /\ f.pc = "deact" /\ inflight' # inflight) =>
              /\ ~slots'[f.slot.id].isActive
              /\ chanName'[f.slot.channelId] = f.slot.originalChannelName
      ]_vars

\* a level1 slot granted at hour 0, swept one hour after its 7 days, about to be deactivated
C12_Witness ==
    \E f \in Frames :
        /\ f.kind = "sweep" /\ f.pc = "deact"
        /\ f.slot.shopType = "level1" /\ f.slot.expiresAt = 7 * 24
        /\ now = f.slot.expiresAt + 1
        /\ chanName[f.slot.channelId] = OriginalName(f.slot.channelId)

(* C13: for every slot of the store, whatever operation created or updated
   it, expires-at is null if and only if the catalog duration of its tier is
   null, i.e. the tier is level4 or partnered. *)
C13_NullExpiryIffLifetime ==
    \A i \in SlotIds :
        slots[i].shopType \in ShopType =>
            (slots[i].expiresAt = NULL <=> slots[i].shopType \in {"level4", "partnered"})

(* C14: a grant is all-or-nothing: when a /slotadd handler ends without having
   persisted a slot because an external step failed, nothing that one of its
   earlier steps did remains: no role, no channel permission, no relabel.
   Stated for the grants made while the store holds no slot yet, so that
   whatever remains was left by a failed grant. *)
C14_GrantAllOrNothing ==
    [][\A f \in Frames :
          (f.kind = "add" /\ inflight' = Drop(f) /\ slots' = slots /\ slots = <<>>) =>
              /\ role' = {}
              /\ perm' = {}
              /\ chanName' = [c \in Channels |-> OriginalName(c)]
      ]_vars

(* C15: in every revoke transition (manual, quota violation, expiry) a failure
   of the external revoke or of the label restore, total or partial, is not
   raised to the caller and does not prevent the deactivation: every step of
   revokeSlotPermissions goes on to a later step of the same revoke, and the
   last step leaves the slot with active=false. *)
C15_RevokeFailureStillDeactivates ==
    [][\A f \in Frames : (f.pc \in RevokePcs /\ inflight' # inflight) =>
          IF f.pc = "deact"
          THEN ~slots'[f.slot.id].isActive
          ELSE \E g \in FramesNext :
                   /\ g.kind = f.kind /\ g.slot = f.slot /\ g.queue = f.queue
                   /\ g.pc \in RevokePcs \ {f.pc, "rvRole"}
      ]_vars

\* a revoke that failed as a whole (role, permission and slot label still in place)
\* has reached its deactivation while Discord is down
C15_Witness ==
    \E f \in Frames :
        /\ f.pc = "deact" /\ discord = "down" /\ slots[f.slot.id].isActive
        /\ f.slot.discordUserId \in role
        /\ <<f.slot.channelId, f.slot.discordUserId>> \in perm
        /\ chanName[f.slot.channelId] = SlotName(f.slot.discordUserId)

(* C16: within one sweep, a failure while expiring one slot does not abort the
   sweep: the slots of the list that are still to come stay in the sweep while
   one slot is revoked, and after each deactivation the sweep goes on with the
   next slot of the list, until every slot of the list is deactivated. *)
C16_SweepContinues ==
    [][\A f \in Frames : (f.kind = "sweep" /\ inflight' # inflight) =>
          /\ f.pc # "deact" =>
                 \E g \in FramesNext : g.kind = "sweep" /\ g.slot = f.slot /\ g.queue = f.queue
          /\ f.pc = "deact" =>
                 /\ ~slots'[f.slot.id].isActive
                 /\ f.queue # <<>> =>
                        \E g \in FramesNext :
                            /\ g.kind = "sweep" /\ g.pc = "rvRole"
                            /\ g.slot = Head(f.queue) /\ g.queue = Tail(f.queue)
      ]_vars

\* the sweep deactivated its first slot although the revoke of that slot failed (its
\* holder still has the role), and is now at the last step for the second slot
C16_Witness ==
    \E f \in Frames :
        /\ f.kind = "sweep" /\ f.pc = "deact" /\ f.queue = <<>>
        /\ \E i \in SlotIds :
               /\ i # f.slot.id /\ ~slots[i].isActive
               /\ slots[i].expiresAt # NULL /\ slots[i].expiresAt < now
               /\ slots[i].discordUserId \in role
               /\ slots[i].discordUserId # f.slot.discordUserId

(* C17: at most one sweep is in flight at any time: a tick of the timer that
   fires while the previous sweep is still awaiting a store or external call
   starts no second sweep. *)
C17_SingleFlightSweep == CountKind("sweep") <= 1

(* C18: a grant for a holder who already has an active slot is refused: while
   the holder has an active slot no /slotadd handler is or comes in flight for
   that holder (so none relabels a channel for that holder), no slot of that
   holder is created, and the holder gets no role and no channel permission. *)
C18_DuplicateGrantRefused ==
    [][\A h \in Holders : ActiveSlotsOf(h) # {} =>
          /\ \A g \in Frames \cup FramesNext : ~(g.kind = "add" /\ g.h = h)
          /\ Len(slots') > Len(slots) => slots'[Len(slots')].discordUserId # h
          /\ h \in role' => h \in role
          /\ \A c \in Channels : <<c, h>> \in perm' => <<c, h>> \in perm
      ]_vars

\* h1 has an active slot, no handler is in flight and the store has room for another
\* slot: a /slotadd for h1 is refused by the check and by nothing else
C18_Witness ==
    /\ Idle /\ ActiveSlotsOf("h1") # {}
    /\ CanSpawn /\ Len(slots) < MaxSlots

(* C19: a manual remove for a holder with no active slot is refused: while the
   holder has no active slot no /slotremove handler is or comes in flight for
   that holder, no revoke is issued for any of the holder's slots and those
   slots stay as they are; a remove for a holder with an active slot ends with
   that slot inactive. *)
C19_ManualRemove ==
    [][/\ \A h \in Holders : ActiveSlotsOf(h) = {} =>
              /\ \A g \in Frames \cup FramesNext : ~(g.kind = "remove" /\ g.h = h)
              /\ \A i \in SlotIds : slots[i].discordUserId = h =>
                     slots'[i] = slots[i] /\ revokeCalls'[i] = revokeCalls[i]
       /\ \A f \in Frames : (f.kind = "remove" /\ inflight' = Drop(f)) =>
              /\ ActiveSlotsOf(f.h) = {f.slot.id}
              /\ ~slots'[f.slot.id].isActive
      ]_vars

\* the /slotremove of one holder is at its last step while the other holder has a slot
\* that is no longer active
C19_Witness ==
    \E f \in Frames :
        /\ f.kind = "remove" /\ f.pc = "deact"
        /\ \E i \in SlotIds : slots[i].discordUserId # f.h /\ ~slots[i].isActive

(* C20: a grant, through any creation path, whose tier name is not one of the
   five catalog tiers persists no slot: every slot of the store has a tier of
   the catalog. *)
C20_UnknownTierRefused == \A i \in SlotIds : slots[i].shopType \in ShopType

(* C21: when a revoke (manual removal, quota violation or expiry) completes
   with Discord reachable, the holder has neither the role nor the permission
   on the slot's channel, the channel carries the name recorded as original in
   the slot, and the slot is inactive. *)
C21_RevokeReconciles ==
    [][\A f \in Frames : (f.pc = "deact" /\ inflight' # inflight) =>
          /\ f.kind \in {"remove", "ping", "sweep"}
          /\ ~slots'[f.slot.id].isActive
          /\ f.slot.discordUserId \notin role'
          /\ <<f.slot.channelId, f.slot.discordUserId>> \notin perm'
          /\ chanName'[f.slot.channelId] = f.slot.originalChannelName
      ]_vars

(* C22: the lifecycle of a slot is monotone: once the active flag of a slot is
   false, no operation, the HTTP update route included, sets it back to true. *)
C22_InactiveForever ==
    [][\A i \in SlotIds : ~slots[i].isActive => ~slots'[i].isActive]_vars

(* C23: ping records are append-only and immutable: every step keeps every
   record that exists, with its slot, its holder and its used-at, and a step
   that appends a record changes no slot. *)
C23_PingEventsAppendOnly ==
    [][/\ Len(pingUsage') >= Len(pingUsage)
       /\ \A k \in 1..Len(pingUsage) : pingUsage'[k] = pingUsage[k]
       /\ pingUsage' # pingUsage => slots' = slots
      ]_vars

\* a slot with a ping on record from an earlier window is about to get another one
C23_Witness ==
    \E f \in Frames :
        /\ f.kind = "ping" /\ f.pc = "pingDecide" /\ f.recent < Quota(f.slot.shopType)
        /\ \E k \in EventsOf(f.slot.id) : pingUsage[k].usedAt < now

(* C24: getSlotStats, /slotinfo and the quota evaluation itself leave users,
   slots and ping records unchanged; getSlotStats returns activeSlots = the
   number of slots with active=true and totalSlots = the number of slot
   records, so activeSlots <= totalSlots. *)
C24_ReadOnlyAndStats ==
    [][/\ getSlotStats.activeSlots = Cardinality({i \in SlotIds : slots[i].isActive})
       /\ getSlotStats.totalSlots = Len(slots)
       /\ getSlotStats.activeSlots <= getSlotStats.totalSlots
       /\ \A f \in Frames : (f.kind = "ping" /\ f.pc = "pingCount" /\ inflight' # inflight) =>
              users' = users /\ slots' = slots /\ pingUsage' = pingUsage
      ]_vars

\* a quota evaluation is about to count, with one active and one inactive slot in the store
C24_Witness ==
    /\ \E f \in Frames : f.kind = "ping" /\ f.pc = "pingCount"
    /\ getSlotStats.activeSlots = 1 /\ getSlotStats.totalSlots = 2
    /\ pingUsage # <<>>

(* C25: the three terminal transitions revoke in the same way: whatever the
   reason, the revoke of a slot starts at the same first step with the slot as
   the store holds it, each of its steps has the effect that the step and the
   slot determine (remove the role, remove the permission, restore the recorded
   name, set active=false), and nothing else of the store or of the external
   state changes. *)
C25_SameRevocation ==
    [][/\ \A f \in Frames : (f.pc \in RevokePcs /\ inflight' # inflight) =>
              LET h == f.slot.discordUserId
                  c == f.slot.channelId
              IN  /\ role' = IF f.pc = "rvRole" THEN role \ {h} ELSE role
                  /\ perm' = IF f.pc = "rvPerm" THEN perm \ {<<c, h>>} ELSE perm
                  /\ chanName' = IF f.pc = "rvName"
                                 THEN [chanName EXCEPT ![c] = f.slot.originalChannelName]
                                 ELSE chanName
                  /\ slots' = IF f.pc = "deact"
                              THEN [slots EXCEPT ![f.slot.id].isActive = FALSE]
                              ELSE slots
                  /\ users' = users /\ pingUsage' = pingUsage
       /\ \A g \in FramesNext :
              (g.pc \in RevokePcs /\ ~\E f \in Frames : f.pc \in RevokePcs /\ f.slot = g.slot) =>
                  g.pc = "rvRole" /\ g.slot = slots[g.slot.id]
      ]_vars

(* C26: in every revoke transition the deactivation does not depend on the
   external calls: once a handler has evaluated an attempt as over the limit,
   or has entered the revoke of a slot, that slot eventually is inactive, even
   if Discord never answers again. *)
C26_DeactivationCommits ==
    \A i \in 1..MaxSlots :
        (\E f \in Frames : f.slot.id = i /\ (EvaluatedOver(f) \/ f.pc \in RevokePcs))
            ~> (i \in SlotIds /\ ~slots[i].isActive)

(* C27: a grant records as original the name the channel had immediately before
   the grant renamed it, and when a revoke of that slot, whatever its trigger,
   has made its calls, the channel carries that name again. *)
C27_LabelRestored ==
    [][\A f \in Frames : inflight' # inflight =>
          /\ (f.kind = "add" /\ f.pc = "addName") =>
                 /\ chanName'[f.c] = SlotName(f.h)
                 /\ \A g \in FramesNext : g.orig = chanName[f.c]
          /\ (f.kind = "add" /\ f.pc = "addSlot") =>
                 /\ slots'[Len(slots')].originalChannelName = f.orig
                 /\ slots'[Len(slots')].channelId = f.c
          /\ f.pc \in {"rvName", "deact"} =>
                 chanName'[f.slot.channelId] = slots[f.slot.id].originalChannelName
      ]_vars

\* the second slot of a channel is revoked after a ping over the limit: the channel is
\* back to the name it had before that grant, which was the first slot's name
C27_Witness ==
    \E f \in Frames :
        /\ f.kind = "ping" /\ f.pc = "deact"
        /\ f.slot.originalChannelName # OriginalName(f.slot.channelId)
        /\ chanName[f.slot.channelId] = f.slot.originalChannelName

(* C28: the store holds at most one user record per Discord id, in every
   reachable state, also after two grants for the same new user whose lookup
   and create steps interleave; and no step removes a user record. *)
C28_HoldersUnique ==
    \A i, j \in 1..Len(users) : users[i] = users[j] => i = j

(* C29: the tier table has exactly the five tiers; the durations of level1,
   level2 and level3 are finite and non-decreasing, level4 and partnered have
   none, and partnered has a strictly larger quota than level4; a lookup depends
   on the tier name only: every slot granted by the bot carries the expiry the
   table gives for its tier, counted from a time of grant. *)
C29_TierCatalog ==
    /\ DOMAIN shopTypes = ShopType
    /\ Cardinality(ShopType) = 5
    /\ \A t \in {"level1", "level2", "level3"} : shopTypes[t].duration \in Nat
    /\ shopTypes["level1"].duration <= shopTypes["level2"].duration
    /\ shopTypes["level2"].duration <= shopTypes["level3"].duration
    /\ shopTypes["level4"].duration = NULL
    /\ shopTypes["partnered"].duration = NULL
    /\ shopTypes["partnered"].pingsPerCooldown > shopTypes["level4"].pingsPerCooldown
    /\ \A t \in ShopType : Quota(t) \in Nat \ {0} /\ Window(t) \in Nat \ {0}
    /\ \A i \in SlotIds :
           IF shopTypes[slots[i].shopType].duration = NULL
           THEN slots[i].expiresAt = NULL
           ELSE slots[i].expiresAt - shopTypes[slots[i].shopType].duration \in 0..now
    /\ \A f \in Frames :
           (f.kind = "ping" /\ f.pc \in RevokePcs) =>
               Cardinality(EventsOf(f.slot.id)) >= Quota(f.slot.shopType)

\* a level1 slot that ran out and a partnered slot that used its two pings
C29_Witness ==
    \E i, j \in SlotIds :
        /\ slots[i].shopType = "level1" /\ slots[i].expiresAt < now /\ ~slots[i].isActive
        /\ slots[j].shopType = "partnered" /\ slots[j].isActive
        /\ Cardinality(EventsOf(j)) = 2

(* C30: a revoke changes, in the store, only the active flag of its slot: the
   record stays, with its user, tier, channel, original name and expiry; every
   other slot, every user and every ping record is as before. *)
C30_RevokeFrame ==
    [][\A f \in Frames : (f.pc \in RevokePcs /\ inflight' # inflight) =>
          /\ users' = users
          /\ pingUsage' = pingUsage
          /\ Len(slots') = Len(slots)
          /\ \A i \in SlotIds : i # f.slot.id => slots'[i] = slots[i]
          /\ slots'[f.slot.id] =
                 [slots[f.slot.id] EXCEPT !.isActive = IF f.pc = "deact" THEN FALSE ELSE @]
      ]_vars

\* a slot about to be deactivated next to an active slot of the other user, with ping
\* records in the store
C30_Witness ==
    \E f \in Frames :
        /\ f.pc = "deact" /\ slots[f.slot.id].isActive
        /\ \E i \in SlotIds : i # f.slot.id /\ slots[i].isActive
        /\ pingUsage # <<>>

(* C31: with the interval ticking, the clock advancing and every await settling,
   a slot with an expiry that the clock passes does not stay active forever:
   it is eventually inactive. *)
C31_ExpiredEventuallyInactive ==
    \A i \in 1..MaxSlots :
        (i \in SlotIds /\ slots[i].isActive
            /\ slots[i].expiresAt # NULL /\ \E t \in ExpiryClock : slots[i].expiresAt < t)
            ~> (i \in SlotIds /\ ~slots[i].isActive)

\* a sweep, during an outage, about to deactivate a slot that nobody removed
C31_Witness ==
    \E f \in Frames :
        /\ f.kind = "sweep" /\ f.pc = "deact" /\ discord = "down"
        /\ slots[f.slot.id].isActive /\ slots[f.slot.id].expiresAt < now
        /\ revokeCalls[f.slot.id] = 1

(* C38: the interval of the sweep is set at most once, by the first ready
   event; once stop() has cleared it it stays cleared, and while the bot is
   stopped no tick of the sweep begins, so that the only sweeps that still
   deactivate a slot are those that were in flight when stop() was called. *)
C38_OwnedTimer ==
    [][/\ checkExpirationInterval' = "ticking" =>
              checkExpirationInterval \in {"null", "ticking"}
       /\ checkExpirationInterval = "cleared" => checkExpirationInterval' = "cleared"
       /\ (client = "destroyed" \/ checkExpirationInterval = "cleared") =>
              /\ CountKind("sweep")' <= CountKind("sweep")
              /\ \A i \in SlotIds :
                     (slots[i].isActive /\ ~slots'[i].isActive) =>
                         \E f \in Frames : f.pc = "deact" /\ f.slot.id = i
      ]_vars

\* the bot was stopped and started again: the client is ready, the interval stays
\* cleared, and an expired slot waits for a sweep that does not come
C38_Witness ==
    /\ client = "ready" /\ checkExpirationInterval = "cleared" /\ Idle
    /\ getExpiredSlots # {}

(* C32: whenever a user has an active slot and no handler is in flight, the
   user holds the slot role and the permission on the slot's channel; a revoke
   that read an older slot and ends late does not take them from the new slot. *)
C32_ActiveHasAccess ==
    Idle =>
        \A i \in SlotIds :
            slots[i].isActive =>
                /\ slots[i].discordUserId \in role
                /\ <<slots[i].channelId, slots[i].discordUserId>> \in perm

(* C33: whenever a user has no active slot in the store and no handler is in
   flight, the user holds neither the slot role nor a permission on a channel,
   and no channel carries the user's slot name; the delete of an active slot by
   the dashboard leaves none of these behind. *)
C33_NoSlotNoAccess ==
    Idle =>
        \A h \in Holders :
            ActiveSlotsOf(h) = {} =>
                /\ h \notin role
                /\ \A c \in Channels : <<c, h>> \notin perm /\ chanName[c] # SlotName(h)

(* C34: the routes that create and update slots keep the one-active-slot rule: a
   POST /api/slots or PATCH /api/slots/:id that starts in a state where every
   user has at most one active slot ends in such a state. *)
C34_RoutesKeepOneActive ==
    [][(/\ inflight' = inflight /\ slots' # slots
        /\ \A h \in Holders : Cardinality(ActiveSlotsOf(h)) <= 1)
           => \A h \in Holders :
                  Cardinality({i \in 1..Len(slots') :
                                  slots'[i].discordUserId = h /\ slots'[i].isActive}) <= 1
      ]_vars

(* C35: a ping is let through and recorded only for a slot that is active and
   whose expiry is null or later than the time of the ping: a slot past its
   expiry that no sweep has reached yet gets no further ping recorded. *)
C35_NoPingAfterExpiry ==
    [][pingUsage' # pingUsage =>
          LET e == pingUsage'[Len(pingUsage')] IN
          /\ slots[e.slotId].isActive
          /\ slots[e.slotId].expiresAt = NULL \/ slots[e.slotId].expiresAt > e.usedAt
      ]_vars

(* C36: the count on which a ping is decided is the number of ping records of
   that very slot within its window; records of other slots, of another user or
   of an earlier slot of the same user, do not enter it, so the first ping of a
   slot granted after a revoke is counted as 0 and let through. *)
C36_QuotaPerSlot ==
    [][\A f \in Frames : (f.kind = "ping" /\ inflight' # inflight) =>
          /\ f.pc = "pingCount" =>
                 \A g \in FramesNext :
                     g.recent = Cardinality({k \in EventsOf(f.slot.id) :
                                    pingUsage[k].usedAt >= now - Window(f.slot.shopType)})
          /\ (f.pc = "pingDecide" /\ EventsOf(f.slot.id) = {}) =>
                 /\ f.recent = 0
                 /\ pingUsage' = Append(pingUsage,
                        [slotId |-> f.slot.id, discordUserId |-> f.h, usedAt |-> now])
      ]_vars

\* the first ping of a user's second slot is counted as 0 while a ping of the user's
\* first slot lies within the window
C36_Witness ==
    \E f \in Frames :
        /\ f.kind = "ping" /\ f.pc = "pingDecide" /\ f.recent = 0
        /\ \E k \in 1..Len(pingUsage) :
               /\ pingUsage[k].discordUserId = f.h /\ pingUsage[k].slotId # f.slot.id
               /\ pingUsage[k].usedAt >= now - Window(f.slot.shopType)

(* C37: the two creation paths agree on the expiry: for every tier of the
   catalog, at every instant, the expiresAt the dashboard computes from its own
   table (null for level4 and partnered) is the one /slotadd computes from
   shopTypes. *)
C37_SameExpiry ==
    \A t \in ShopType : DashboardExpiresAt(t) = ExpiresAt(t)

\* at hour 24, a level3 slot created from the dashboard (its user has no user record)
\* next to a level3 slot granted by /slotadd, with the same expiry
C37_Witness ==
    /\ now = 24
    /\ \E i, j \in SlotIds :
           /\ ~getUserByDiscordId(slots[i].discordUserId)
           /\ getUserByDiscordId(slots[j].discordUserId)
           /\ slots[i].shopType = "level3" /\ slots[j].shopType = "level3"
           /\ slots[i].expiresAt = 24 + 30 * 24 /\ slots[j].expiresAt = slots[i].expiresAt

====
